---- MODULE Spec2Model ----
(***************************************************************************)
(* State-machine model of the DuckDB http_client extension                 *)
(* (src/src/http_client_extension.cpp): the scalar functions http_get and  *)
(* http_post applied row by row to a batch, the URL decomposition of       *)
(* SetupHttpClient, the header deserializer of http_post and the error     *)
(* classifier HandleHttpError.                                             *)
(*                                                                         *)
(* A std::string is a sequence of one-character strings; positions are     *)
(* 0-based as in C++.  An error message is a sequence of pieces: string    *)
(* literals of the source stay whole, computed text is spelled character   *)
(* by character.                                                           *)
(***************************************************************************)
EXTENDS Integers, Sequences, FiniteSets, TLC

VARIABLES
    fn,               \* "GET" or "POST": the scalar function the batch runs
    rows,             \* args: the rows of the input chunk
    row,              \* 1-based index of the row the executor is at
    pc,               \* "setup", "request", "wait", "done" or "error"
    client_and_path,  \* SetupHttpClient's value for the current row: <<>> or <<v>>
    header_map,       \* http_post's header_map, in iteration order
    sent,             \* the calls made on the transport so far, in order
    res,              \* what the transport call of the row returned: <<>> or <<r>>
    result,           \* the values written to the result vector so far
    exits,            \* how the lambda was left for each processed row
    thrown            \* what() of the exception that left the batch: <<>> or <<m>>

vars == <<fn, rows, row, pc, client_and_path, header_map, sent, res, result,
          exits, thrown>>

(***************************************************************************)
(* Bounds of the model.                                                    *)
(***************************************************************************)
MaxRows == 3      \* rows of a batch
MaxUrlLen == 6    \* length of the URLs enumerated over UrlAlphabet
MaxHdrLen == 4    \* length of the header blocks enumerated over HdrAlphabet
MaxRestLen == 2   \* length of the URL remainders enumerated over UrlAlphabet

(***************************************************************************)
(* std::string                                                             *)
(***************************************************************************)
\* std::string::npos.  size_t arithmetic is modulo 2^64, where npos is the
\* residue of -1: npos + 1 = 0, which the trimming code relies on.
npos == -1

Min(S) == CHOOSE x \in S : \A y \in S : x <= y
Max(S) == CHOOSE x \in S : \A y \in S : y <= x

\* s.find(pat): the least position at which pat occurs in s, or npos.
Find(s, pat) ==
    LET at == {i \in 0..(Len(s) - Len(pat)) :
                  SubSeq(s, i + 1, i + Len(pat)) = pat}
    IN  IF at = {} THEN npos ELSE Min(at)

\* s.find_first_not_of(set), s.find_last_not_of(set).
FindFirstNotOf(s, set) ==
    LET at == {i \in 0..(Len(s) - 1) : s[i + 1] \notin set}
    IN  IF at = {} THEN npos ELSE Min(at)

FindLastNotOf(s, set) ==
    LET at == {i \in 0..(Len(s) - 1) : s[i + 1] \notin set}
    IN  IF at = {} THEN npos ELSE Max(at)

\* s.substr(pos, n) and s.substr(pos), for pos <= s.size().
Substr(s, pos, n) ==
    SubSeq(s, pos + 1, IF pos + n > Len(s) THEN Len(s) ELSE pos + n)

SubstrFrom(s, pos) == SubSeq(s, pos + 1, Len(s))

\* s.erase(pos, n): removes min(n, size - pos) characters from pos on;
\* n = npos is the largest size_t, so everything from pos on goes.
Erase(s, pos, n) ==
    LET k == IF n = npos \/ pos + n > Len(s) THEN Len(s) - pos ELSE n
    IN  SubSeq(s, 1, pos) \o SubSeq(s, pos + k + 1, Len(s))

\* s.erase(pos): everything from pos on goes.
EraseFrom(s, pos) == SubSeq(s, 1, pos)

\* The NUL character, and s.c_str() read back as a C string: the text up to
\* the first NUL.
NUL == "NUL"

CStr(s) ==
    LET p == Find(s, <<NUL>>)
    IN  IF p = npos THEN s ELSE Substr(s, 0, p)

RECURSIVE Digits(_)
Digits(n) ==
    IF n < 10 THEN <<(<<"0", "1", "2", "3", "4", "5", "6", "7", "8", "9">>)[n + 1]>>
    ELSE Digits(n \div 10) \o Digits(n % 10)

\* std::to_string(int): decimal digits, a leading '-' for a negative value.
to_string(n) == IF n < 0 THEN <<"-">> \o Digits(0 - n) ELSE Digits(n)

(***************************************************************************)
(* SetupHttpClient                                                         *)
(***************************************************************************)
\* "://" and its length, the 3 of  mod_url.erase(0, pos + 3).
SchemeSep == <<":", "/", "/">>

\* An erase that stops one character short and leaves the last '/'.
SchemeSepLen_Short == Len(SchemeSep) - 1

SchemeSepLen == 3

\* The read timeout in seconds of  client.set_read_timeout(10, 0).
ReadTimeoutSec == 10

\* duckdb_httplib_openssl::Client client(domain.c_str()): the constructor
\* takes the C string; the client's settings start at the library defaults.
Client(host) ==
    [host |-> CStr(host), read_timeout |-> "default", follow_location |-> "default"]

set_read_timeout(c, sec, usec) == [c EXCEPT !.read_timeout = <<sec, usec>>]

set_follow_location(c, on) == [c EXCEPT !.follow_location = on]

\* SetupHttpClient taking the path from behind the '/' (substr(pos + 1)) and
\* defaulting it to the empty string.
SetupHttpClient_PathBehindSlash(url) ==
    LET pos1    == Find(url, SchemeSep)
        mod_url == IF pos1 # npos THEN Erase(url, 0, pos1 + SchemeSepLen) ELSE url
        pos2    == Find(mod_url, <<"/">>)
        domain  == IF pos2 # npos THEN Substr(mod_url, 0, pos2) ELSE mod_url
        path    == IF pos2 # npos THEN SubstrFrom(mod_url, pos2 + 1) ELSE <<>>
    IN  [domain |-> domain,
         first  |-> set_follow_location(
                        set_read_timeout(Client(domain), ReadTimeoutSec, 0), TRUE),
         second |-> path]

\* SetupHttpClient ending the path in front of a '?'.
SetupHttpClient_CutsQuery(url) ==
    LET pos1    == Find(url, SchemeSep)
        mod_url == IF pos1 # npos THEN Erase(url, 0, pos1 + SchemeSepLen) ELSE url
        pos2    == Find(mod_url, <<"/">>)
        domain  == IF pos2 # npos THEN Substr(mod_url, 0, pos2) ELSE mod_url
        whole   == IF pos2 # npos THEN SubstrFrom(mod_url, pos2) ELSE <<"/">>
        pos3    == Find(whole, <<"?">>)
        path    == IF pos3 # npos THEN Substr(whole, 0, pos3) ELSE whole
    IN  [domain |-> domain,
         first  |-> set_follow_location(
                        set_read_timeout(Client(domain), ReadTimeoutSec, 0), TRUE),
         second |-> path]

\* SetupHttpClient leaving the scheme in place (no erase at line 25).
SetupHttpClient_KeepsScheme(url) ==
    LET mod_url == url
        pos2    == Find(mod_url, <<"/">>)
        domain  == IF pos2 # npos THEN Substr(mod_url, 0, pos2) ELSE mod_url
        path    == IF pos2 # npos THEN SubstrFrom(mod_url, pos2) ELSE <<"/">>
    IN  [domain |-> domain,
         first  |-> set_follow_location(
                        set_read_timeout(Client(domain), ReadTimeoutSec, 0), TRUE),
         second |-> path]

\* The value of SetupHttpClient(url): the pair (client, path); domain is the
\* local the client is constructed from.
SetupHttpClient(url) ==
    LET pos1    == Find(url, SchemeSep)
        mod_url == IF pos1 # npos THEN Erase(url, 0, pos1 + SchemeSepLen) ELSE url
        pos2    == Find(mod_url, <<"/">>)
        domain  == IF pos2 # npos THEN Substr(mod_url, 0, pos2) ELSE mod_url
        path    == IF pos2 # npos THEN SubstrFrom(mod_url, pos2) ELSE <<"/">>
    IN  [domain |-> domain,
         first  |-> set_follow_location(
                        set_read_timeout(Client(domain), ReadTimeoutSec, 0), TRUE),
         second |-> path]

(***************************************************************************)
(* The header deserializer of http_post                                    *)
(***************************************************************************)
\* std::getline over the header block: the lines, in order.  A line ends at
\* '\n' (which is dropped) or at the end of the block; a read that meets the
\* end of the block with nothing extracted fails and ends the loop.
RECURSIVE GetLines(_)
GetLines(s) ==
    IF s = <<>> THEN <<>>
    ELSE LET p == Find(s, <<"\n">>)
         IN  IF p = npos THEN <<s>>
             ELSE <<Substr(s, 0, p)>> \o GetLines(SubstrFrom(s, p + 1))

\* The characters of " \t".
TrimSet == {" ", "\t"}

\* x.erase(0, x.find_first_not_of(" \t"));
\* x.erase(x.find_last_not_of(" \t") + 1);
TrimErase(x) ==
    LET x1 == Erase(x, 0, FindFirstNotOf(x, TrimSet))
    IN  EraseFrom(x1, FindLastNotOf(x1, TrimSet) + 1)

\* The character codes (ASCII) the map's comparison reads; the table is the
\* printable range 32..126 in order (the grave accent is written BACKTICK).
Printable ==
    <<" ", "!", "\"", "#", "$", "%", "&", "'", "(", ")", "*", "+", ",", "-", ".", "/",
      "0", "1", "2", "3", "4", "5", "6", "7", "8", "9", ":", ";", "<", "=", ">", "?",
      "@", "A", "B", "C", "D", "E", "F", "G", "H", "I", "J", "K", "L", "M", "N", "O",
      "P", "Q", "R", "S", "T", "U", "V", "W", "X", "Y", "Z", "[", "\\", "]", "^", "_",
      "BACKTICK", "a", "b", "c", "d", "e", "f", "g", "h", "i", "j", "k", "l", "m", "n", "o",
      "p", "q", "r", "s", "t", "u", "v", "w", "x", "y", "z", "{", "|", "}", "~">>

Code(c) ==
    CASE c = NUL  -> 0
      [] c = "\t" -> 9
      [] c = "\n" -> 10
      [] c = "\r" -> 13
      [] OTHER    -> 31 + (CHOOSE i \in 1..Len(Printable) : Printable[i] = c)

\* ::tolower in the C locale.
tolower(n) == IF 65 <= n /\ n <= 90 THEN n + 32 ELSE n

\* The ordering of duckdb_httplib_openssl::Headers, a std::multimap whose
\* comparison is the library's case-insensitive one: s1 comes before s2 when
\* it does lexicographically, each character lowered first.
RECURSIVE ci(_, _)
ci(s1, s2) ==
    IF s2 = <<>> THEN FALSE
    ELSE IF s1 = <<>> THEN TRUE
    ELSE IF tolower(Code(s1[1])) < tolower(Code(s2[1])) THEN TRUE
    ELSE IF tolower(Code(s2[1])) < tolower(Code(s1[1])) THEN FALSE
    ELSE ci(Tail(s1), Tail(s2))

\* Two keys the map's comparison does not tell apart are one key to it.
KeyEquiv(k1, k2) == ~ci(k1, k2) /\ ~ci(k2, k1)

\* An emplace that puts the new entry before the entries of an equivalent
\* key (the lower bound).
Emplace_LowerBound(m, key, value) ==
    LET lb == Cardinality({i \in 1..Len(m) : ci(m[i].key, key)})
    IN  SubSeq(m, 1, lb) \o <<[key |-> key, value |-> value]>>
            \o SubSeq(m, lb + 1, Len(m))

\* header_map.emplace(key, value): a multimap keeps every entry; the new one
\* goes after the entries whose key does not come after key (the end of the
\* range of equivalent keys).
Emplace(m, key, value) ==
    LET ub == Cardinality({i \in 1..Len(m) : ~ci(key, m[i].key)})
    IN  SubSeq(m, 1, ub) \o <<[key |-> key, value |-> value]>>
            \o SubSeq(m, ub + 1, Len(m))

\* The loop body splitting at the last ':' of the line (rfind).
HeaderLine_LastColon(m, header) ==
    LET at == {i \in 0..(Len(header) - 1) : header[i + 1] = ":"}
    IN  IF at # {}
        THEN Emplace(m, TrimErase(Substr(header, 0, Max(at))),
                        TrimErase(SubstrFrom(header, Max(at) + 1)))
        ELSE m

\* The body of the while loop for one line.
HeaderLine(m, header) ==
    LET colon_pos == Find(header, <<":">>)
    IN  IF colon_pos # npos
        THEN Emplace(m, TrimErase(Substr(header, 0, colon_pos)),
                        TrimErase(SubstrFrom(header, colon_pos + 1)))
        ELSE m

RECURSIVE HeaderLoop(_, _)
HeaderLoop(m, lines) ==
    IF lines = <<>> THEN m
    ELSE HeaderLoop(HeaderLine(m, Head(lines)), Tail(lines))

\* header_map once the loop over the block's lines has ended.
ParseHeaders(block) == HeaderLoop(<<>>, GetLines(block))

(***************************************************************************)
(* The transport's answers                                                 *)
(***************************************************************************)
\* The codes the switch of HandleHttpError names, in its order.
NamedErrors ==
    <<"Connection", "BindIPAddress", "Read", "Write", "ExceedRedirectCount",
      "Canceled", "SSLConnection", "SSLLoadingCerts", "SSLServerVerification",
      "UnsupportedMultipartBoundaryChars", "Compression">>

\* Codes of the library's Error enumeration the switch does not name.
OtherErrors == {"Unknown", "ConnectionTimeout", "ProxyConnection"}

Errors == {NamedErrors[i] : i \in 1..Len(NamedErrors)} \cup OtherErrors

Statuses == {200, 201, 204, 301, 404, 500}

Reasons == {<<>>, <<"N", "o", "t", " ", "F", "o", "u", "n", "d">>}

Bodies == {<<>>, <<"h", "e", "l", "l", "o">>}

\* What a call of client.Get or client.Post may return: a response (res is
\* true) or an error code with no response (res is false).
Outcomes ==
    [kind : {"response"}, status : Statuses, reason : Reasons, body : Bodies]
        \cup [kind : {"error"}, error : Errors]

(***************************************************************************)
(* HandleHttpError                                                         *)
(***************************************************************************)
\* The text the switch appends for res.error().
ErrorText(error) ==
    CASE error = "Connection" -> "Connection error."
      [] error = "BindIPAddress" -> "Failed to bind IP address."
      [] error = "Read" -> "Error reading response."
      [] error = "Write" -> "Error writing request."
      [] error = "ExceedRedirectCount" -> "Too many redirects."
      [] error = "Canceled" -> "Request was canceled."
      [] error = "SSLConnection" -> "SSL connection failed."
      [] error = "SSLLoadingCerts" -> "Failed to load SSL certificates."
      [] error = "SSLServerVerification" -> "SSL server verification failed."
      [] error = "UnsupportedMultipartBoundaryChars" ->
             "Unsupported characters in multipart boundary."
      [] error = "Compression" -> "Error during compression."
      [] OTHER -> "Unknown error."

\* HandleHttpError with the Compression case lost to the default.
HandleHttpError_CompressionFallsThrough(r, request_type) ==
    [throws |-> TRUE,
     what   |-> <<"HTTP ", request_type, " request failed. ">>
                    \o <<ErrorText(IF r.error = "Compression" THEN "Unknown"
                                   ELSE r.error)>>]

\* HandleHttpError whose default case returns instead of throwing.
HandleHttpError_DefaultReturns(r, request_type) ==
    [throws |-> r.error \in {NamedErrors[i] : i \in 1..Len(NamedErrors)},
     what   |-> <<"HTTP ", request_type, " request failed. ">>
                    \o <<ErrorText(r.error)>>]

\* How HandleHttpError(res, request_type) ends: throws says whether it leaves
\* by the throw of its last line, what is the exception's message.
HandleHttpError(r, request_type) ==
    [throws |-> TRUE,
     what   |-> <<"HTTP ", request_type, " request failed. ">>
                    \o <<ErrorText(r.error)>>]

\* The message of the throw for a response whose status is not 200.
StatusError(r, request_type) ==
    <<"HTTP ", request_type, " error: ">> \o to_string(r.status)
        \o <<" - ">> \o r.reason

\* string_t(): the empty string.
string_t == <<>>

\* The lambda with the status test inverted (status != 200 returns the body).
HandleResult_Inverted(r, request_type) ==
    IF r.kind = "response"
    THEN IF r.status # 200
         THEN [exit |-> "return_body", value |-> r.body]
         ELSE [exit |-> "throw_status", value |-> StatusError(r, request_type)]
    ELSE [exit |-> "throw_transport", value |-> HandleHttpError(r, request_type).what]

\* The lambda taking every 2xx status for a success.
HandleResult_Any2xx(r, request_type) ==
    IF r.kind = "response"
    THEN IF r.status >= 200 /\ r.status < 300
         THEN [exit |-> "return_body", value |-> r.body]
         ELSE [exit |-> "throw_status", value |-> StatusError(r, request_type)]
    ELSE [exit |-> "throw_transport", value |-> HandleHttpError(r, request_type).what]

\* How the lambda ends once the transport call has returned r:
\*     if (res) { if (res->status == 200) return body; else throw ...; }
\*     else { HandleHttpError(res, ...); }
\*     return string_t();
HandleResult(r, request_type) ==
    IF r.kind = "response"
    THEN IF r.status = 200
         THEN [exit |-> "return_body", value |-> r.body]
         ELSE [exit |-> "throw_status", value |-> StatusError(r, request_type)]
    ELSE LET h == HandleHttpError(r, request_type)
         IN  IF h.throws
             THEN [exit |-> "throw_transport", value |-> h.what]
             ELSE [exit |-> "return_default", value |-> string_t]

(***************************************************************************)
(* The batch: UnaryExecutor / TernaryExecutor call the lambda row by row   *)
(***************************************************************************)
\* An executor that swallows a row's exception and goes on with the next row.
LeaveLambda_Continue(end) ==
    /\ exits' = Append(exits, end.exit)
    /\ client_and_path' = <<>>
    /\ header_map' = <<>>
    /\ result' = Append(result, IF end.exit = "return_body" THEN end.value ELSE string_t)
    /\ row' = row + 1
    /\ pc' = IF row = Len(rows) THEN "done" ELSE "setup"
    /\ UNCHANGED thrown

\* A lambda that issues the request a second time, on the same client, when
\* the first try of a row did not end in a 200 response.
LeaveLambda_RetryOnce(end) ==
    IF /\ end.exit \notin {"return_body", "return_default"}
       /\ Cardinality({i \in DOMAIN sent : sent[i].row = row}) = 1
    THEN /\ pc' = "request"
         /\ UNCHANGED <<exits, client_and_path, header_map, result, row, thrown>>
    ELSE /\ exits' = Append(exits, end.exit)
         /\ client_and_path' = <<>>
         /\ header_map' = <<>>
         /\ IF end.exit \in {"return_body", "return_default"}
            THEN /\ result' = Append(result, end.value)
                 /\ row' = row + 1
                 /\ pc' = IF row = Len(rows) THEN "done" ELSE "setup"
                 /\ UNCHANGED thrown
            ELSE /\ thrown' = <<end.value>>
                 /\ pc' = "error"
                 /\ UNCHANGED <<result, row>>

\* The lambda's locals are gone once it is left.
LeaveLambda(end) ==
    /\ exits' = Append(exits, end.exit)
    /\ client_and_path' = <<>>
    /\ header_map' = <<>>
    /\ IF end.exit \in {"return_body", "return_default"}
       THEN /\ result' = Append(result, end.value)
            /\ row' = row + 1
            /\ pc' = IF row = Len(rows) THEN "done" ELSE "setup"
            /\ UNCHANGED thrown
       ELSE /\ thrown' = <<end.value>>
            /\ pc' = "error"
            /\ UNCHANGED <<result, row>>

\* An http_get that enforces a non-empty URL before it sets the client up.
GetSetup_RejectsEmptyUrl ==
    /\ fn = "GET" /\ pc = "setup" /\ row <= Len(rows)
    /\ IF rows[row].url = <<>>
       THEN /\ thrown' = << <<"HTTP ", "GET", " error: ", "empty URL">> >>
            /\ exits' = Append(exits, "throw_setup")
            /\ pc' = "error"
            /\ UNCHANGED <<client_and_path, res>>
       ELSE /\ client_and_path' = <<SetupHttpClient(rows[row].url)>>
            /\ res' = <<>>
            /\ pc' = "request"
            /\ UNCHANGED <<exits, thrown>>
    /\ UNCHANGED <<fn, rows, row, header_map, sent, result>>

\* http_get, lines 94-99: the URL of the row, SetupHttpClient.
GetSetup ==
    /\ fn = "GET" /\ pc = "setup" /\ row <= Len(rows)
    /\ client_and_path' = <<SetupHttpClient(rows[row].url)>>
    /\ res' = <<>>
    /\ pc' = "request"
    /\ UNCHANGED <<fn, rows, row, header_map, sent, result, exits, thrown>>

\* http_get, line 102: client.Get(path.c_str()) is called.
GetRequest ==
    /\ fn = "GET" /\ pc = "request"
    /\ sent' = Append(sent, [method |-> "GET", row |-> row,
                             client |-> client_and_path[1].first,
                             args   |-> <<CStr(client_and_path[1].second)>>])
    /\ pc' = "wait"
    /\ UNCHANGED <<fn, rows, row, client_and_path, header_map, res, result,
                   exits, thrown>>

\* http_get, lines 102-114: the call returns and the lambda ends.
GetReturn ==
    /\ fn = "GET" /\ pc = "wait"
    /\ \E r \in Outcomes :
          /\ res' = <<r>>
          /\ LeaveLambda(HandleResult(r, "GET"))
    /\ UNCHANGED <<fn, rows, sent>>

\* http_post, lines 128-133.
PostSetup ==
    /\ fn = "POST" /\ pc = "setup" /\ row <= Len(rows)
    /\ client_and_path' = <<SetupHttpClient(rows[row].url)>>
    /\ res' = <<>>
    /\ pc' = "request"
    /\ UNCHANGED <<fn, rows, row, header_map, sent, result, exits, thrown>>

\* http_post taking the content type from a Content-Type line of the block
\* when there is one.
PostRequest_ContentTypeFromBlock ==
    /\ fn = "POST" /\ pc = "request"
    /\ header_map' = ParseHeaders(rows[row].headers)
    /\ sent' = Append(sent, [method |-> "POST", row |-> row,
                             client |-> client_and_path[1].first,
                             args   |-> <<CStr(client_and_path[1].second),
                                          header_map', rows[row].body,
                                          IF \E i \in DOMAIN header_map' :
                                                KeyEquiv(header_map'[i].key, <<"C", "o", "n", "t", "e", "n", "t", "-", "T", "y", "p", "e">>)
                                          THEN header_map'[CHOOSE i \in DOMAIN header_map' :
                                                KeyEquiv(header_map'[i].key, <<"C", "o", "n", "t", "e", "n", "t", "-", "T", "y", "p", "e">>)].value
                                          ELSE <<"application/json">> >>])
    /\ pc' = "wait"
    /\ UNCHANGED <<fn, rows, row, client_and_path, res, result, exits, thrown>>

\* http_post, lines 136-154: the header block is parsed and
\* client.Post(path.c_str(), header_map, body.GetString(), "application/json")
\* is called.
PostRequest ==
    /\ fn = "POST" /\ pc = "request"
    /\ header_map' = ParseHeaders(rows[row].headers)
    /\ sent' = Append(sent, [method |-> "POST", row |-> row,
                             client |-> client_and_path[1].first,
                             args   |-> <<CStr(client_and_path[1].second),
                                          header_map', rows[row].body,
                                          <<"application/json">> >>])
    /\ pc' = "wait"
    /\ UNCHANGED <<fn, rows, row, client_and_path, res, result, exits, thrown>>

\* http_post, lines 154-166.
PostReturn ==
    /\ fn = "POST" /\ pc = "wait"
    /\ \E r \in Outcomes :
          /\ res' = <<r>>
          /\ LeaveLambda(HandleResult(r, "POST"))
    /\ UNCHANGED <<fn, rows, sent>>

Next ==
    \/ GetSetup
    \/ GetRequest
    \/ GetReturn
    \/ PostSetup
    \/ PostRequest
    \/ PostReturn

(***************************************************************************)
(* Inputs                                                                  *)
(***************************************************************************)
\* Every string over alphabet of length at most n.
StringsUpTo(alphabet, n) == UNION {[1..k -> alphabet] : k \in 0..n}

\* All sequences over S of length at most n.
SeqsUpTo(S, n) == UNION {[1..k -> S] : k \in 0..n}

UrlAlphabet == {"h", ":", "/"}

HdrAlphabet == {"a", "A", ":", " ", "\t", "\n"}

\* "scheme://host/a/b", "scheme://host", "host", "x://",
\* "h<NUL>x/p" and "host/p?u=a://b/c".
UrlExamples ==
    {<<"s", "c", "h", "e", "m", "e", ":", "/", "/", "h", "o", "s", "t", "/", "a", "/", "b">>,
     <<"s", "c", "h", "e", "m", "e", ":", "/", "/", "h", "o", "s", "t">>,
     <<"h", "o", "s", "t">>,
     <<"x", ":", "/", "/">>,
     <<"h", NUL, "x", "/", "p">>,
     <<"h", "o", "s", "t", "/", "p", "?", "u", "=", "a", ":", "/", "/", "b", "/", "c">>,
     <<"s", ":", "/", "/", "h", "/", "p", "?", "u", "=", "a", ":", "/", "/", "b", "/", "c">>}

\* "Content-Type: application/json\nX-Foo:bar"
HdrContentType ==
    <<"C", "o", "n", "t", "e", "n", "t", "-", "T", "y", "p", "e", ":", " ",
      "a", "p", "p", "l", "i", "c", "a", "t", "i", "o", "n", "/", "j", "s", "o", "n",
      "\n", "X", "-", "F", "o", "o", ":", "b", "a", "r">>

\* "garbage\nA: 1"
HdrGarbage ==
    <<"g", "a", "r", "b", "a", "g", "e", "\n", "A", ":", " ", "1">>

\* "X-Test: 1"
HdrXTest == <<"X", "-", "T", "e", "s", "t", ":", " ", "1">>

\* "b: 1\r\nHost: a:80\r\nB:2\n\ta b\t:\t x \nnone\n"
HdrMixed ==
    <<"b", ":", " ", "1", "\r", "\n", "H", "o", "s", "t", ":", " ", "a", ":", "8", "0",
      "\r", "\n", "B", ":", "2", "\n", "\t", "a", " ", "b", "\t", ":", "\t", " ", "x",
      " ", "\n", "n", "o", "n", "e", "\n">>

\* "a: 1\nA: 2\na: 3"
HdrCase ==
    <<"a", ":", " ", "1", "\n", "A", ":", " ", "2", "\n", "a", ":", " ", "3">>

HdrExamples == {HdrContentType, HdrGarbage, HdrXTest, HdrMixed, HdrCase}

\* "{}"
BodyBraces == <<"{", "}">>

\* The rows of the multi-row batches.
BatchUrls == {<<"h">>, <<"s", ":", "/", "/", "g", "/", "p">>}

BatchHeaders == {<<>>, HdrXTest}

BatchBodies == {BodyBraces}

HdrBodies == {<<>>, BodyBraces}

GetRows(urls) == [url : urls]

PostRows(urls, blocks, bodies) == [url : urls, headers : blocks, body : bodies]

\* The state when the executor enters the batch.
Start(f, rs) ==
    /\ fn = f
    /\ rows = rs
    /\ row = 1
    /\ pc = IF rs = <<>> THEN "done" ELSE "setup"
    /\ client_and_path = <<>>
    /\ header_map = <<>>
    /\ sent = <<>>
    /\ res = <<>>
    /\ result = <<>>
    /\ exits = <<>>
    /\ thrown = <<>>

\* Batches of up to MaxRows rows.
Init ==
    \/ \E rs \in SeqsUpTo(GetRows(BatchUrls), MaxRows) : Start("GET", rs)
    \/ \E rs \in SeqsUpTo(PostRows(BatchUrls, BatchHeaders, BatchBodies), MaxRows) :
          Start("POST", rs)

Spec == Init /\ [][Next]_vars

\* One-row batches over every URL of length at most MaxUrlLen and the
\* examples.
InitUrl ==
    \E u \in StringsUpTo(UrlAlphabet, MaxUrlLen) \cup UrlExamples :
        \/ Start("GET", <<[url |-> u]>>)
        \/ Start("POST", <<[url |-> u, headers |-> HdrXTest, body |-> BodyBraces]>>)

SpecUrl == InitUrl /\ [][Next]_vars

\* One-row batches over every header block of length at most MaxHdrLen and
\* the examples.
InitHdr ==
    \/ \E u \in BatchUrls : Start("GET", <<[url |-> u]>>)
    \/ \E h \in StringsUpTo(HdrAlphabet, MaxHdrLen) \cup HdrExamples,
          b \in HdrBodies :
          Start("POST", <<[url |-> <<"h", "/", "p">>, headers |-> h, body |-> b]>>)

SpecHdr == InitHdr /\ [][Next]_vars

\* One-row batches over every enumerated URL and every enumerated header
\* block.
InitInputs == InitUrl \/ InitHdr

SpecInputs == InitInputs /\ [][Next]_vars

\* What a URL may carry in front of its remainder: nothing, or a scheme and
\* "://".
SchemePrefixes ==
    {<<>>, <<":", "/", "/">>, <<"s", ":", "/", "/">>, <<"h", "t", "t", "p", ":", "/", "/">>, <<"h", "t", "t", "p", "s", ":", "/", "/">>, <<":", ":", "/", "/">>}

RestExamples == {<<"h", "/", "p">>, <<"a", ":", "/", "/", "b", "/", "c">>}

\* Two-row batches whose URLs are a prefix of SchemePrefixes each in front of
\* one remainder of length at most MaxRestLen or an example.
InitPair ==
    \E r \in StringsUpTo(UrlAlphabet, MaxRestLen) \cup RestExamples,
       a \in SchemePrefixes, b \in SchemePrefixes :
        \/ Start("GET", <<[url |-> a \o r], [url |-> b \o r]>>)
        \/ Start("POST", <<[url |-> a \o r, headers |-> HdrXTest, body |-> BodyBraces],
                           [url |-> b \o r, headers |-> HdrXTest, body |-> BodyBraces]>>)

SpecPair == InitPair /\ [][Next]_vars

(***************************************************************************)
(* Properties                                                              *)
(***************************************************************************)
\* The transport returned a response, and one with status 200.
HasResponse == res # <<>> /\ res[1].kind = "response"

Is200 == HasResponse /\ res[1].status = 200

HasError == res # <<>> /\ res[1].kind = "error"

Last(s) == s[Len(s)]

\* sub occurs in s as a contiguous run.
Contains(s, sub) ==
    \E i \in 1..(Len(s) - Len(sub) + 1) : SubSeq(s, i, i + Len(sub) - 1) = sub

DigitChars == {"0", "1", "2", "3", "4", "5", "6", "7", "8", "9"}

DigitValue(d) == CHOOSE n \in 0..9 : to_string(n) = <<d>>

RECURSIVE DecValue(_)
DecValue(d) ==
    IF d = <<>> THEN 0
    ELSE 10 * DecValue(SubSeq(d, 1, Len(d) - 1)) + DigitValue(Last(d))

\* msg holds the decimal numeral of n as a whole run of digits.
ContainsNumber(msg, n) ==
    \E i \in 1..Len(msg) : \E j \in i..Len(msg) :
        /\ \A k \in i..j : msg[k] \in DigitChars
        /\ i = 1 \/ msg[i - 1] \notin DigitChars
        /\ j = Len(msg) \/ msg[j + 1] \notin DigitChars
        /\ j = i \/ msg[i] # "0"
        /\ DecValue(SubSeq(msg, i, j)) = n

\* C1: for http_get and http_post alike, when the transport returns a
\* response with status 200 the row's output value is the response body,
\* unchanged, and no error is raised for that row.
C1_Status200ReturnsBody ==
    Is200 =>
        /\ thrown = <<>>
        /\ pc # "error"
        /\ Len(result) = row - 1
        /\ result[row - 1] = res[1].body
        /\ Last(exits) = "return_body"

C1_Witness ==
    /\ fn = "GET" /\ Is200
    /\ res[1].body = <<"h", "e", "l", "l", "o">>
    /\ result = <<res[1].body>>

\* C2: for http_get and http_post alike, when the transport returns a
\* response whose status is not 200 (201, 204, 3xx, 4xx, 5xx) an error is
\* raised whose message contains the status code in decimal and the reason
\* phrase, and no value is written for the row.
C2_Non200Raises ==
    (HasResponse /\ res[1].status # 200) =>
        /\ Len(thrown) = 1
        /\ pc = "error"
        /\ ContainsNumber(thrown[1], res[1].status)
        /\ Contains(thrown[1], res[1].reason)
        /\ Len(result) = row - 1
        /\ Len(exits) = row
        /\ Last(exits) = "throw_status"

C2_Witness ==
    /\ fn = "POST" /\ HasResponse
    /\ res[1].status = 204
    /\ res[1].body # <<>> /\ res[1].reason # <<>>
    /\ thrown # <<>>

\* The messages the claim C3 names, in the order of NamedErrors.
C3_Messages ==
    <<"Connection error.", "Failed to bind IP address.", "Error reading response.",
      "Error writing request.", "Too many redirects.", "Request was canceled.",
      "SSL connection failed.", "Failed to load SSL certificates.",
      "SSL server verification failed.",
      "Unsupported characters in multipart boundary.", "Error during compression.">>

C3_Expected(error) ==
    IF \E i \in 1..Len(NamedErrors) : NamedErrors[i] = error
    THEN C3_Messages[CHOOSE i \in 1..Len(NamedErrors) : NamedErrors[i] = error]
    ELSE "Unknown error."

\* C3: when the transport yields no response, the raised message is
\* "HTTP <GET|POST> request failed. " followed by a text selected by the error
\* code alone: each of the eleven named codes has its own text, pairwise
\* distinct and none "Unknown error." (Connection gives "Connection error."),
\* and every other code gives "Unknown error.".
C3_ErrorTextByCode ==
    /\ HasError =>
          /\ thrown = << <<"HTTP ", fn, " request failed. ",
                           C3_Expected(res[1].error)>> >>
          /\ res[1].error = "Connection" => Last(thrown[1]) = "Connection error."
          /\ res[1].error \in OtherErrors => Last(thrown[1]) = "Unknown error."
          /\ \A e \in Errors \ {res[1].error} :
                (e \notin OtherErrors \/ res[1].error \notin OtherErrors)
                    => ErrorText(e) # Last(thrown[1])
    /\ Len(NamedErrors) = 11
    /\ Cardinality({ErrorText(e) : e \in Errors}) = 12

C3_Witness ==
    /\ HasError /\ res[1].error = "Connection"
    /\ thrown = << <<"HTTP ", "GET", " request failed. ", "Connection error.">> >>

\* C4: every processed row ends in one of two ways: it outputs the body of
\* a status-200 response or it raises an error; HandleHttpError raises for
\* every error code, so the lambda's closing  return string_t()  is never
\* reached.
C4_BodyOrError ==
    /\ \A i \in DOMAIN exits :
          exits[i] \in {"return_body", "throw_status", "throw_transport"}
    /\ Len(exits) = Len(result) + Len(thrown)
    /\ \A i \in DOMAIN result : exits[i] = "return_body"
    /\ res # <<>> =>
          IF Is200
          THEN /\ Last(exits) = "return_body"
               /\ Len(result) = Len(exits)
               /\ Last(result) = res[1].body
               /\ thrown = <<>>
          ELSE /\ Last(exits) \in {"throw_status", "throw_transport"}
               /\ Len(thrown) = 1
               /\ Len(result) = Len(exits) - 1

C4_Witness ==
    /\ HasError /\ res[1].error \in OtherErrors
    /\ pc = "error" /\ Last(exits) = "throw_transport"
    /\ Len(result) = 1

IsPrefix(s, t) == Len(s) <= Len(t) /\ SubSeq(t, 1, Len(s)) = s

C5_State ==
    /\ Len(sent) <= Len(rows)
    /\ \A i \in DOMAIN sent : sent[i].row = i
    /\ Len(sent) \in {row - 1, row}
    /\ (res # <<>> /\ ~Is200) => pc = "error"
    /\ (pc = "error") <=> (thrown # <<>>)
    /\ pc = "error" =>
          /\ ~ENABLED Next
          /\ Len(sent) = row
          /\ Len(result) = row - 1
          /\ Len(result) < Len(rows)
          /\ \A i \in 1..(row - 1) : exits[i] = "return_body"
    /\ pc = "done" => Len(result) = Len(rows) /\ thrown = <<>>

C5_Step ==
    /\ IsPrefix(sent, sent')
    /\ IsPrefix(result, result')
    /\ pc # "error"

\* C5: in a batch processed row by row, the first row whose request ends in a
\* non-200 response or a transport failure aborts the batch: the error leaves
\* the batch call, no request is dispatched for a later row, the batch is not
\* completed, and the requests dispatched for earlier rows stay as they are.
C5_FirstFailureAbortsBatch == []C5_State /\ [][C5_Step]_vars

C5_Witness ==
    /\ pc = "error" /\ Len(rows) = 3 /\ row = 2
    /\ Len(sent) = 2 /\ Len(result) = 1

(***************************************************************************)
(* Properties of the URL decomposition (checked under SpecUrl)             *)
(***************************************************************************)
Range(s) == {s[i] : i \in DOMAIN s}

\* SetupHttpClient has run for the current row.
AfterSetup == pc \in {"request", "wait"}

\* The places (1-based) where "://" starts in u.
C6_SchemeAt(u) ==
    {i \in 1..(Len(u) - 2) : u[i] = ":" /\ u[i + 1] = "/" /\ u[i + 2] = "/"}

\* u with everything up to and including its first "://" removed.
C6_Rest(u) ==
    IF C6_SchemeAt(u) = {} THEN u
    ELSE LET i == CHOOSE i \in C6_SchemeAt(u) : \A j \in C6_SchemeAt(u) : i <= j
         IN  [k \in 1..(Len(u) - (i + 2)) |-> u[i + 2 + k]]

\* C6: for every input string, rest is the input behind its first "://" (the
\* input itself without one); if rest holds a '/', host is the text before
\* the first '/' and path the text from that '/' on; otherwise host is rest
\* and path is "/".  "scheme://host/a/b" gives host "host", path "/a/b";
\* "host" and "scheme://host" give host "host", path "/".
C6_Decomposition ==
    AfterSetup =>
        LET u    == rows[row].url
            host == client_and_path[1].domain
            path == client_and_path[1].second
            rest == C6_Rest(u)
        IN  /\ IF "/" \in Range(rest)
               THEN \E k \in 1..Len(rest) :
                       /\ rest[k] = "/"
                       /\ \A j \in 1..(k - 1) : rest[j] # "/"
                       /\ host = [j \in 1..(k - 1) |-> rest[j]]
                       /\ path = [j \in 1..(Len(rest) - k + 1) |-> rest[k + j - 1]]
               ELSE host = rest /\ path = <<"/">>
            /\ u = <<"s", "c", "h", "e", "m", "e", ":", "/", "/", "h", "o", "s", "t", "/", "a", "/", "b">> => host = <<"h", "o", "s", "t">> /\ path = <<"/", "a", "/", "b">>
            /\ u \in {<<"h", "o", "s", "t">>, <<"s", "c", "h", "e", "m", "e", ":", "/", "/", "h", "o", "s", "t">>} => host = <<"h", "o", "s", "t">> /\ path = <<"/">>

C6_Witness ==
    /\ pc = "wait"
    /\ rows[row].url = <<"s", "c", "h", "e", "m", "e", ":", "/", "/", "h", "o", "s", "t", "/", "a", "/", "b">>
    /\ client_and_path[1].domain = <<"h", "o", "s", "t">>
    /\ client_and_path[1].second = <<"/", "a", "/", "b">>

\* C7: for every input string (the empty string, a bare scheme such as
\* "x://", several "://" or '/'), the path is non-empty and starts with '/',
\* and the host holds no '/'.
C7_PathStartsWithSlash ==
    AfterSetup =>
        /\ client_and_path[1].second # <<>>
        /\ client_and_path[1].second[1] = "/"
        /\ "/" \notin Range(client_and_path[1].domain)

C7_Witness ==
    /\ AfterSetup
    /\ rows[row].url = <<"x", ":", "/", "/">>
    /\ client_and_path[1].domain = <<>>
    /\ client_and_path[1].second = <<"/">>

(***************************************************************************)
(* Properties of the header deserializer (checked under SpecHdr)           *)
(***************************************************************************)
\* The pieces of s between its newline characters.
RECURSIVE C8_Split(_)
C8_Split(s) ==
    IF "\n" \notin Range(s) THEN <<s>>
    ELSE LET n == CHOOSE n \in 1..Len(s) :
                      s[n] = "\n" /\ \A j \in 1..(n - 1) : s[j] # "\n"
         IN  <<SubSeq(s, 1, n - 1)>> \o C8_Split(SubSeq(s, n + 1, Len(s)))

C8_Blank == {" ", "\t"}

\* x without its leading and trailing spaces and tabs: the piece of x that
\* has only blanks before and after it and no blank at either end.
C8_Trim(x) ==
    CHOOSE t \in {SubSeq(x, i, j) : i \in 1..(Len(x) + 1), j \in 0..Len(x)} :
        \E i \in 1..(Len(x) + 1) : \E j \in (i - 1)..Len(x) :
            /\ t = SubSeq(x, i, j)
            /\ \A k \in 1..(i - 1) : x[k] \in C8_Blank
            /\ \A k \in (j + 1)..Len(x) : x[k] \in C8_Blank
            /\ t = <<>> \/ (t[1] \notin C8_Blank /\ t[Len(t)] \notin C8_Blank)

\* The entry of a line that holds a ':'.
C8_Entry(line) ==
    LET c == CHOOSE c \in 1..Len(line) :
                 line[c] = ":" /\ \A j \in 1..(c - 1) : line[j] # ":"
    IN  [key   |-> C8_Trim(SubSeq(line, 1, c - 1)),
         value |-> C8_Trim(SubSeq(line, c + 1, Len(line)))]

RECURSIVE C8_EntriesOf(_)
C8_EntriesOf(lines) ==
    IF lines = <<>> THEN <<>>
    ELSE (IF ":" \in Range(Head(lines)) THEN <<C8_Entry(Head(lines))>> ELSE <<>>)
             \o C8_EntriesOf(Tail(lines))

\* The entries of a header block, in the order of its lines.
C8_Entries(block) == C8_EntriesOf(C8_Split(block))

Count(s, x) == Cardinality({i \in DOMAIN s : s[i] = x})

\* a and b hold the same entries the same number of times.
SameBag(a, b) ==
    /\ Len(a) = Len(b)
    /\ \A x \in Range(a) \cup Range(b) : Count(a, x) = Count(b, x)

AfterParse == fn = "POST" /\ pc = "wait"

\* C8: the header deserializer splits the block into lines at newlines; a
\* line without ':' contributes nothing; otherwise key is the text before the
\* first ':' and value the text after it, both with leading and trailing
\* spaces and tabs removed and nothing else (a carriage return stays), and
\* the pair is inserted.  "Content-Type: application/json\nX-Foo:bar" yields
\* exactly {Content-Type: application/json, X-Foo: bar}; "garbage\nA: 1"
\* yields exactly {A: 1}.
C8_HeaderParsing ==
    AfterParse =>
        LET block == rows[row].headers
        IN  /\ SameBag(header_map, C8_Entries(block))
            /\ block = HdrContentType =>
                  SameBag(header_map,
                          <<[key |-> <<"C", "o", "n", "t", "e", "n", "t", "-", "T", "y", "p", "e">>, value |-> <<"a", "p", "p", "l", "i", "c", "a", "t", "i", "o", "n", "/", "j", "s", "o", "n">>],
                            [key |-> <<"X", "-", "F", "o", "o">>, value |-> <<"b", "a", "r">>]>>)
            /\ block = HdrGarbage => header_map = <<[key |-> <<"A">>, value |-> <<"1">>]>>
            /\ block = HdrMixed =>
                  /\ [key |-> <<"b">>, value |-> <<"1", "\r">>] \in Range(header_map)
                  /\ [key |-> <<"H", "o", "s", "t">>, value |-> <<"a", ":", "8", "0", "\r">>] \in Range(header_map)
                  /\ [key |-> <<"a", " ", "b">>, value |-> <<"x">>] \in Range(header_map)
                  /\ Len(header_map) = 4

C8_Witness ==
    /\ AfterParse
    /\ rows[row].headers = HdrMixed
    /\ Len(header_map) = 4
    /\ [key |-> <<"b">>, value |-> <<"1", "\r">>] \in Range(header_map)

\* The letters, upper case and lower case, in step.
C9_Upper == <<"A", "B", "C", "D", "E", "F", "G", "H", "I", "J", "K", "L", "M", "N", "O", "P", "Q", "R", "S", "T", "U", "V", "W", "X", "Y", "Z">>

C9_Lower == <<"a", "b", "c", "d", "e", "f", "g", "h", "i", "j", "k", "l", "m", "n", "o", "p", "q", "r", "s", "t", "u", "v", "w", "x", "y", "z">>

C9_FoldChar(c) ==
    IF \E i \in 1..Len(C9_Upper) : C9_Upper[i] = c
    THEN C9_Lower[CHOOSE i \in 1..Len(C9_Upper) : C9_Upper[i] = c]
    ELSE c

\* name with every upper-case letter turned to lower case.
C9_Fold(name) == [i \in 1..Len(name) |-> C9_FoldChar(name[i])]

\* Two names are the same but for the case of their letters.
C9_SameButCase(a, b) == C9_Fold(a) = C9_Fold(b)

\* a comes before b in the lexicographic order of the folded names.
C9_FoldedBefore(a, b) ==
    \E k \in 1..Len(b) :
        /\ k <= Len(a) + 1
        /\ \A j \in 1..(k - 1) : C9_FoldChar(a[j]) = C9_FoldChar(b[j])
        /\ k = Len(a) + 1 \/ Code(C9_FoldChar(a[k])) < Code(C9_FoldChar(b[k]))

\* The entries of s whose name is that of the map key of name.
RECURSIVE C9_Class(_, _)
C9_Class(s, name) ==
    IF s = <<>> THEN <<>>
    ELSE (IF C9_SameButCase(Head(s).key, name) THEN <<Head(s)>> ELSE <<>>)
             \o C9_Class(Tail(s), name)

\* C9 as stated: the header map built by http_post keeps the entries in the
\* order of their lines in the header block, and two names that differ only
\* in letter case are distinct keys of the map.
C9_LineOrderCaseSensitive ==
    AfterParse =>
        /\ header_map = C8_Entries(rows[row].headers)
        /\ \A i, j \in DOMAIN header_map :
              header_map[i].key # header_map[j].key
                  => ~KeyEquiv(header_map[i].key, header_map[j].key)

\* C9 amended: the header map built by http_post keeps every parsed entry
\* with its name and value spelled as parsed, but it is ordered by name and
\* compares names without regard to letter case: the entries stand in the
\* lexicographic order of their names with the letters lowered, two names
\* that differ only in letter case are one key, and only the entries of one
\* key keep the order of their lines.
C9_SortedCaseInsensitive ==
    AfterParse =>
        LET parsed == C8_Entries(rows[row].headers)
        IN  /\ SameBag(header_map, parsed)
            /\ \A i, j \in DOMAIN header_map :
                  i < j => ~C9_FoldedBefore(header_map[j].key, header_map[i].key)
            /\ \A i \in DOMAIN parsed :
                  C9_Class(header_map, parsed[i].key) = C9_Class(parsed, parsed[i].key)
            /\ \A i, j \in DOMAIN header_map :
                  KeyEquiv(header_map[i].key, header_map[j].key)
                      <=> C9_SameButCase(header_map[i].key, header_map[j].key)

C9_Witness ==
    /\ AfterParse
    /\ rows[row].headers = HdrMixed
    /\ header_map # C8_Entries(HdrMixed)
    /\ header_map[1].key = <<"a", " ", "b">>
    /\ header_map[2].key = <<"b">>
    /\ header_map[3].key = <<"B">>
    /\ header_map[4].key = <<"H", "o", "s", "t">>

\* The lines of a block that hold a ':'.
C10_ColonLines(block) ==
    Cardinality({i \in DOMAIN C8_Split(block) : ":" \in Range(C8_Split(block)[i])})

\* C10: http_post hands the transport exactly the entries parsed from the
\* header block (one per line that holds a ':', none added, none dropped;
\* "X-Test: 1" forwards exactly one entry), the body unchanged and the content
\* type "application/json" whatever the block or the body hold (also when the
\* block has a Content-Type line); http_get hands it no headers and no body.
C10_Forwarded ==
    \A i \in DOMAIN sent :
        IF sent[i].method = "POST"
        THEN /\ fn = "POST"
             /\ Len(sent[i].args) = 4
             /\ SameBag(sent[i].args[2], C8_Entries(rows[i].headers))
             /\ Len(sent[i].args[2]) = C10_ColonLines(rows[i].headers)
             /\ sent[i].args[3] = rows[i].body
             /\ sent[i].args[4] = <<"application/json">>
             /\ rows[i].headers = HdrXTest =>
                   sent[i].args[2] = <<[key |-> <<"X", "-", "T", "e", "s", "t">>, value |-> <<"1">>]>>
        ELSE /\ fn = "GET" /\ sent[i].method = "GET"
             /\ Len(sent[i].args) = 1

C10_Witness ==
    /\ fn = "POST" /\ Len(sent) = 1
    /\ rows[1].headers = HdrContentType
    /\ rows[1].body = BodyBraces
    /\ Len(sent[1].args[2]) = 2
    /\ sent[1].args[3] = BodyBraces
    /\ sent[1].args[4] = <<"application/json">>

(***************************************************************************)
(* Properties of the client and of the request (checked under Spec)        *)
(***************************************************************************)
\* The text of rest before its first '/', all of rest without one.
C11_Host(u) ==
    LET rest == C6_Rest(u)
        at   == {k \in 1..Len(rest) : rest[k] = "/"}
    IN  IF at = {} THEN rest
        ELSE [j \in 1..((CHOOSE k \in at : \A l \in at : k <= l) - 1) |-> rest[j]]

\* A client for the host of u, up to a NUL, with a read timeout of 10 seconds
\* and redirect following on.
C11_Configured(c, u) ==
    /\ c.host = CStr(C11_Host(u))
    /\ c.read_timeout = <<10, 0>>
    /\ c.follow_location = TRUE

C11_State ==
    /\ \A i \in DOMAIN sent :
          /\ sent[i].row = i
          /\ C11_Configured(sent[i].client, rows[i].url)
    /\ Len(sent) <= row
    /\ pc \in {"setup", "done", "error"} => client_and_path = <<>>
    /\ pc \in {"request", "wait"} =>
          /\ Len(client_and_path) = 1
          /\ C11_Configured(client_and_path[1].first, rows[row].url)
    /\ pc = "request" => Len(sent) = row - 1
    /\ pc = "wait" => Len(sent) = row
    /\ (res # <<>> /\ ~Is200) => (pc = "error" /\ Len(sent) = row)

C11_Step ==
    /\ sent' # sent =>
          /\ pc = "request" /\ pc' = "wait"
          /\ Len(sent') = Len(sent) + 1
          /\ IsPrefix(sent, sent')
          /\ Last(sent').client = client_and_path[1].first
          /\ Last(sent').row = row
    /\ (pc = "setup" /\ pc' = "request") => client_and_path = <<>>
    /\ pc = "wait" => (pc' # "request" /\ client_and_path' = <<>>)

\* C11: for every processed row, http_get and http_post construct a fresh
\* client for the row's host, set its read timeout to 10 seconds and turn
\* redirect following on before the request is issued, and then issue exactly
\* one request on it: no request is retried after a non-200 response or a
\* transport failure, and no client is used for another row.
C11_FreshClientOneRequest == []C11_State /\ [][C11_Step]_vars

C11_Witness ==
    /\ pc = "error" /\ row = 2 /\ HasError
    /\ Len(sent) = 2
    /\ sent[1].client.host = <<"h">>
    /\ sent[2].client.host = <<"g">>
    /\ sent[2].client.read_timeout = <<10, 0>>
    /\ sent[2].client.follow_location = TRUE

(***************************************************************************)
(* Further properties of the URL decomposition (checked under SpecUrl)     *)
(***************************************************************************)
\* The places (1-based) of the '/' characters of u.
C12_SlashAt(u) == {k \in 1..Len(u) : u[k] = "/"}

\* The first '/' of u comes before its first "://": u has no scheme prefix.
C12_NoSchemePrefix(u) ==
    /\ C12_SlashAt(u) # {}
    /\ C6_SchemeAt(u) # {}
    /\ \E k \in C12_SlashAt(u) : \A i \in C6_SchemeAt(u) : k < i

\* C12: the URL decomposer strips a scheme only when it is a prefix of the
\* URL: for an input whose first '/' comes before its first "://" (such as
\* "host/p?u=a://b/c") host is the text before the input's first '/' and path
\* is everything from that '/' on.
C12_SchemeOnlyAsPrefix ==
    (AfterSetup /\ C12_NoSchemePrefix(rows[row].url)) =>
        LET u == rows[row].url
            k == CHOOSE k \in C12_SlashAt(u) : \A l \in C12_SlashAt(u) : k <= l
        IN  /\ client_and_path[1].domain = [j \in 1..(k - 1) |-> u[j]]
            /\ client_and_path[1].second = [j \in 1..(Len(u) - k + 1) |-> u[k + j - 1]]
            /\ u = <<"h", "o", "s", "t", "/", "p", "?", "u", "=", "a", ":", "/", "/", "b", "/", "c">> =>
                  /\ client_and_path[1].domain = <<"h", "o", "s", "t">>
                  /\ client_and_path[1].second = <<"/", "p", "?", "u", "=", "a", ":", "/", "/", "b", "/", "c">>

(***************************************************************************)
(* No input is turned down (checked under SpecInputs)                      *)
(***************************************************************************)
C13_State ==
    /\ pc = "setup" => (row <= Len(rows) /\ ENABLED (GetSetup \/ PostSetup))
    /\ (pc = "request" /\ fn = "GET") => ENABLED GetRequest
    /\ (pc = "request" /\ fn = "POST") =>
          Len(ParseHeaders(rows[row].headers)) <= Len(rows[row].headers)
    /\ Len(exits) <= Len(sent)
    /\ thrown # <<>> =>
          /\ res # <<>>
          /\ Len(sent) = row
          /\ Last(exits) \in {"throw_status", "throw_transport"}
    /\ (AfterSetup /\ rows[row].url = <<>>) =>
          /\ client_and_path[1].domain = <<>>
          /\ client_and_path[1].second = <<"/">>
    /\ AfterParse => Len(header_map) <= Len(rows[row].headers)

C13_Step ==
    /\ pc \in {"setup", "request"} => (thrown' = <<>> /\ pc' # "error")
    /\ pc = "setup" => (pc' = "request" /\ sent' = sent)
    /\ pc = "request" => (pc' = "wait" /\ Len(sent') = Len(sent) + 1)
    /\ thrown' # thrown => (pc = "wait" /\ res' # <<>>)

\* C13: no input is turned down before dispatch: for every URL string (the
\* empty one gives host "" and path "/") and every header block (empty or all
\* malformed), URL decomposition and header parsing raise no error and a
\* transport request is issued for the row; http_get and http_post raise
\* errors only after the transport call has returned.
C13_NoInputRejected == []C13_State /\ [][C13_Step]_vars

C13_Witness ==
    /\ fn = "GET" /\ pc = "error" /\ HasError
    /\ rows[1].url = <<>>
    /\ Len(sent) = 1
    /\ sent[1].client.host = <<>>
    /\ sent[1].args = << <<"/">> >>

(***************************************************************************)
(* The scheme and the request (checked under SpecPair)                     *)
(***************************************************************************)
\* u and v are the same behind their first "://", a URL without "://" being
\* all remainder.
C14_DifferOnlyInScheme(u, v) == C6_Rest(u) = C6_Rest(v)

C14_HP == {<<"h", "t", "t", "p", ":", "/", "/", "h", "/", "p">>, <<"h", "t", "t", "p", "s", ":", "/", "/", "h", "/", "p">>, <<"h", "/", "p">>}

C15_FromFirstSlash(s) ==
    LET k == CHOOSE k \in 1..Len(s) : s[k] = "/" /\ \A j \in 1..(k - 1) : s[j] # "/"
    IN  [j \in 1..(Len(s) - k + 1) |-> s[k + j - 1]]

\* C15: URL decomposition loses no character of the part behind the scheme:
\* with rest the input without everything up to and including its first
\* "://", host followed by path is rest when rest holds a '/', and rest
\* followed by '/' otherwise; the query string and every later '/' or "://"
\* of rest stand unchanged in path.
C15_NothingLost ==
    AfterSetup =>
        LET u    == rows[row].url
            host == client_and_path[1].domain
            path == client_and_path[1].second
            rest == C6_Rest(u)
        IN  /\ host \o path = IF "/" \in Range(rest) THEN rest ELSE rest \o <<"/">>
            /\ "/" \in Range(rest) => path = C15_FromFirstSlash(rest)
            /\ u = <<"s", ":", "/", "/", "h", "/", "p", "?", "u", "=", "a", ":", "/", "/", "b", "/", "c">> => path = <<"/", "p", "?", "u", "=", "a", ":", "/", "/", "b", "/", "c">>

C15_Witness ==
    /\ pc = "wait"
    /\ rows[row].url = <<"s", ":", "/", "/", "h", "/", "p", "?", "u", "=", "a", ":", "/", "/", "b", "/", "c">>
    /\ client_and_path[1].domain = <<"h">>
    /\ client_and_path[1].second = <<"/", "p", "?", "u", "=", "a", ":", "/", "/", "b", "/", "c">>

====
